---- MODULE Spec2Model ----
(***************************************************************************)
(* indiconv: translation of indicator formulas to JavaScript.              *)
(*                                                                         *)
(* src/indicatorToJs.ts holds two variants of the translator:              *)
(*   "bespoke"  lines   1-322: field names ($x), array literals and the    *)
(*              functions INCLUDES, PERCENT and COUNTFORMS;                *)
(*   "generic"  lines 324-590: functions renamed through func2jsfunc.      *)
(* Both are modelled; the variable dialect says which one is running.      *)
(*                                                                         *)
(* A formula is a sequence of one-character strings.  A token's text is a  *)
(* sequence of characters too; the JavaScript being built is a string.     *)
(***************************************************************************)
EXTENDS Naturals, Sequences, FiniteSets, TLC

VARIABLES
  dialect,   \* which variant of the module runs
  formula,   \* indicatorToJs's argument
  s,         \* tokenize: the part of the formula still to be scanned
  toks,      \* tokenize: the tokens scanned so far
  revToks,   \* the reversed token array the parser consumes with pop()
  frames,    \* the parser's call stack, innermost call last
  ret,       \* the value the last call returned, until the caller takes it
  tok,       \* the token handed to unexpectedTokenError
  msg,       \* printTokens's s, then the message of the Error thrown
  mode       \* tokenize, run, report, print, returned, thrown, crashed

vars == <<dialect, formula, s, toks, revToks, frames, ret, tok, msg, mode>>

Dialects == {"bespoke", "generic"}

-----------------------------------------------------------------------------
(* enum TokenType *)

END == 0
LParen == 1
RParen == 2
LBracket == 3
RBracket == 4
Comma == 5
Plus == 6
Minus == 7
Mul == 8
Div == 9
Less == 10
LessOrEq == 11
Greater == 12
GreaterOrEq == 13
Equal == 14
NotEqual == 15
Not == 16
String == 17
Number == 18
Indent == 19
Name == 20

Token(type, text) == [type |-> type, text |-> text]

EndToken == Token(END, <<>>)

-----------------------------------------------------------------------------
(* Sequences and strings *)

Last(q) == q[Len(q)]

Front(q) == SubSeq(q, 1, Len(q) - 1)

Drop(q, n) == SubSeq(q, n + 1, Len(q))

RECURSIVE Reverse(_)
Reverse(q) == IF q = <<>> THEN <<>> ELSE Append(Reverse(Tail(q)), Head(q))

\* The string made of the characters of cs.
RECURSIVE Str(_)
Str(cs) == IF cs = <<>> THEN "" ELSE Head(cs) \o Str(Tail(cs))

\* The grave accent, which a string of this module cannot hold.
Backtick == "~"

-----------------------------------------------------------------------------
(* Character classes of the regular expressions *)

Digits == {"0", "1", "2", "3", "4", "5", "6", "7", "8", "9"}

Letters ==
  {"a", "b", "c", "d", "e", "f", "g", "h", "i", "j", "k", "l", "m",
   "n", "o", "p", "q", "r", "s", "t", "u", "v", "w", "x", "y", "z",
   "A", "B", "C", "D", "E", "F", "G", "H", "I", "J", "K", "L", "M",
   "N", "O", "P", "Q", "R", "S", "T", "U", "V", "W", "X", "Y", "Z", "_"}

WordChars == Letters \cup Digits

Whitespace == {" ", "\t", "\n", "\r", "\f"}

\* The number of leading characters of str, from index i on, that are in cls.
RECURSIVE Run(_, _, _)
Run(str, i, cls) ==
  IF i <= Len(str) /\ str[i] \in cls THEN 1 + Run(str, i + 1, cls) ELSE 0

At(str, i) == IF i >= 1 /\ i <= Len(str) THEN str[i] ELSE ""

\* String.prototype.trim
RECURSIVE TrimEnd(_)
TrimEnd(str) ==
  IF str # <<>> /\ Last(str) \in Whitespace THEN TrimEnd(Front(str)) ELSE str

Trim(str) == TrimEnd(Drop(str, Run(str, 1, Whitespace)))

\* /^\d+(\.\d+)?([eE][\+\-]?\d+)?/ : the length of the match (str starts
\* with a digit).
NumberMatch(str) ==
  LET int == Run(str, 1, Digits)
      frac == IF At(str, int + 1) = "." /\ Run(str, int + 2, Digits) > 0
              THEN int + 1 + Run(str, int + 2, Digits) ELSE int
      from == IF At(str, frac + 2) \in {"+", "-"} THEN frac + 3 ELSE frac + 2
  IN  IF At(str, frac + 1) \in {"e", "E"} /\ Run(str, from, Digits) > 0
      THEN from - 1 + Run(str, from, Digits) ELSE frac

\* /^[a-zA-Z_]\w*/ from index i: the length of the match, 0 for no match.
WordMatch(str, i) ==
  IF At(str, i) \in Letters THEN 1 + Run(str, i + 1, WordChars) ELSE 0

\* /^"(\\\\|\\"|[^"])*"/ : the index of the closing quote when the starred
\* group is tried from index i, 0 for no match.  The alternatives are tried
\* in order and the star is greedy, as the backtracking matcher does.
RECURSIVE StringMatch(_, _)
StringMatch(str, i) ==
  LET esc == IF At(str, i) = "\\" /\ At(str, i + 1) \in {"\\", "\""}
             THEN StringMatch(str, i + 2) ELSE 0
      any == IF i <= Len(str) /\ str[i] # "\""
             THEN StringMatch(str, i + 1) ELSE 0
  IN  IF esc > 0 THEN esc
      ELSE IF any > 0 THEN any
      ELSE IF At(str, i) = "\"" THEN i
      ELSE 0

-----------------------------------------------------------------------------
(* firstToken *)

Lexed(type, text) == [error |-> FALSE, token |-> Token(type, text), msg |-> ""]

LexError(m) == [error |-> TRUE, token |-> EndToken, msg |-> m]

\* ExtendsWithEqual with '!' forgotten.
ExtendsWithEqualAngle(c) == c \in {"<", ">"}

\* case '<', '>', '!': the operator extended by a following '='.
ExtendsWithEqual(c) == c \in {"<", ">", "!"}

Punctuation(c) ==
  CASE c = "(" -> LParen
    [] c = ")" -> RParen
    [] c = "[" -> LBracket
    [] c = "]" -> RBracket
    [] c = "," -> Comma
    [] c = "+" -> Plus
    [] c = "-" -> Minus
    [] c = "*" -> Mul
    [] c = "/" -> Div
    [] c = "=" -> Equal

Extended(c) ==
  CASE c = "<" -> LessOrEq
    [] c = ">" -> GreaterOrEq
    [] c = "!" -> NotEqual

Bare(c) ==
  CASE c = "<" -> Less
    [] c = ">" -> Greater
    [] c = "!" -> Not

\* The first token of str in dialect d; str does not begin with whitespace.
FirstToken(str, d) ==
  IF str = <<>> THEN Lexed(END, <<>>)
  ELSE LET c == str[1] IN
    IF c \in {"(", ")", "[", "]", ",", "+", "-", "*", "/", "="}
      THEN Lexed(Punctuation(c), <<c>>)
    ELSE IF c \in {"<", ">", "!"} THEN
      IF ExtendsWithEqual(c) /\ Len(str) > 1 /\ str[2] = "="
      THEN Lexed(Extended(c), <<c, "=">>)
      ELSE Lexed(Bare(c), <<c>>)
    ELSE IF c = "$" /\ d = "bespoke" THEN
      IF WordMatch(str, 2) = 0
      THEN LexError("invalid field name in: " \o Str(str))
      ELSE Lexed(Name, SubSeq(str, 1, 1 + WordMatch(str, 2)))
    ELSE IF c = "\"" THEN
      IF StringMatch(str, 2) = 0
      THEN LexError("unterminated string literal in: " \o Str(str))
      ELSE Lexed(String, SubSeq(str, 1, StringMatch(str, 2)))
    ELSE IF c \in Digits THEN Lexed(Number, SubSeq(str, 1, NumberMatch(str)))
    ELSE IF WordMatch(str, 1) > 0
      THEN Lexed(Indent, SubSeq(str, 1, WordMatch(str, 1)))
    ELSE IF c \in Whitespace THEN LexError("string s has a leading whitespace")
    ELSE LexError("unrecognized token in: " \o Str(str))

\* tokenize as a function: the tokens of str, END included, or the error.
RECURSIVE Tokenize(_, _)
Tokenize(str, d) ==
  LET r == FirstToken(Trim(str), d) IN
    IF r.error THEN [error |-> TRUE, toks |-> <<>>, msg |-> r.msg]
    ELSE IF r.token.type = END
      THEN [error |-> FALSE, toks |-> <<r.token>>, msg |-> ""]
    ELSE LET rest == Tokenize(Drop(Trim(str), Len(r.token.text)), d) IN
      IF rest.error THEN rest
      ELSE [rest EXCEPT !.toks = <<r.token>> \o @]

-----------------------------------------------------------------------------
(* The parser's state *)

\* One call of the parser: the function, where it stands, its expectedEnd,
\* its js, and the name it was given (parseFunctionCall's name,
\* parseCountForms's formName).
Frame(fn, pc, end, name) ==
  [fn |-> fn, pc |-> pc, end |-> end, js |-> "", name |-> name]

NoRet == [from |-> "", end |-> END, val |-> ""]

Cur ==
  [dialect |-> dialect, revToks |-> revToks, frames |-> frames, ret |-> ret,
   tok |-> tok, msg |-> msg, mode |-> mode]

Top(p) == Last(p.frames)

\* revToks.pop()
Popped(p) == [p EXCEPT !.revToks = Front(@)]

\* The running call goes on as frame f.
Goto(p, f) == [p EXCEPT !.frames[Len(p.frames)] = f, !.ret = NoRet]

\* The running call, continuing as frame f, calls g.
Call(p, f, g) ==
  [p EXCEPT !.frames = Append(Front(@), f) \o <<g>>, !.ret = NoRet]

\* return v
Return(p, v) ==
  [p EXCEPT !.frames = Front(@),
            !.ret = [from |-> Top(p).fn, end |-> Top(p).end, val |-> v],
            !.mode = IF Len(p.frames) = 1 THEN "returned" ELSE "run"]

\* throw new Error(m)
Throw(p, m) == [p EXCEPT !.mode = "thrown", !.msg = m, !.ret = NoRet]

\* throw unexpectedTokenError(t, revToks)
Report(p, t) == [p EXCEPT !.mode = "report", !.tok = t, !.ret = NoRet]

\* A property of undefined is read (pop or peek of an empty array): TypeError.
Crash(p) == [p EXCEPT !.mode = "crashed", !.ret = NoRet]

\* consume(revToks, type), the running call then going on as frame f.
Consume(p, type, f) ==
  IF p.revToks = <<>> THEN Crash(p)
  ELSE IF Last(p.revToks).type # type THEN Report(Popped(p), Last(p.revToks))
  ELSE Goto(Popped(p), f)

\* consume(revToks, type), the running call then returning v.
ConsumeReturn(p, type, v) ==
  IF p.revToks = <<>> THEN Crash(p)
  ELSE IF Last(p.revToks).type # type THEN Report(Popped(p), Last(p.revToks))
  ELSE Return(Popped(p), v)

ValidExpressionEnd(end) == end \in {END, RParen, Comma, RBracket}

ValidListEnd(end) == end \in {Comma, RBracket}

\* parseExpression(revToks, end) is called, the caller going on as frame f.
CallParseExpression(p, f, end) ==
  IF ~ValidExpressionEnd(end) THEN Throw(p, "invalid expectedEnd")
  ELSE Call(p, f, Frame("parseExpression", "operand", end, <<>>))

\* parseList(revToks, end) is called, the caller going on as frame f.
CallParseList(p, f, end) ==
  IF ~ValidListEnd(end) THEN Throw(p, "invalid expectedEnd")
  ELSE Call(p, f, Frame("parseList", "start", end, <<>>))

\* consume(revToks, type), then parseExpression(revToks, end) is called, the
\* caller going on as frame f.
ConsumeCallExpression(p, type, f, end) ==
  IF p.revToks = <<>> THEN Crash(p)
  ELSE IF Last(p.revToks).type # type THEN Report(Popped(p), Last(p.revToks))
  ELSE CallParseExpression(Popped(p), f, end)

-----------------------------------------------------------------------------
(* parseExpression *)

\* What the bespoke variant puts around an operator and after a comma.
Pad(d) == IF d = "bespoke" THEN " " ELSE ""

\* IsEndOfExpression with the expected end forgotten for the closing tokens.
IsEndOfExpressionAnyClose(type, expectedEnd) ==
  \/ type = expectedEnd
  \/ type = RParen
  \/ type = Comma

\* IsEndOfExpression with its two special cases merged.
IsEndOfExpressionMerged(type, expectedEnd) ==
  \/ type = expectedEnd
  \/ expectedEnd \in {Comma, RBracket} /\ type \in {RParen, Comma}

\* The test for the possible end of the expression.
IsEndOfExpression(type, expectedEnd) ==
  \/ type = expectedEnd
  \/ expectedEnd = Comma /\ type = RParen
  \/ expectedEnd = RBracket /\ type = Comma

\* IsPassThroughOperator with the upper end of the range left out.
IsPassThroughOperatorShort(type) == type >= Plus /\ type < GreaterOrEq

\* tok.type >= TokenType.Plus && tok.type <= TokenType.GreaterOrEq
IsPassThroughOperator(type) == type >= Plus /\ type <= GreaterOrEq

W_AND == <<"A", "N", "D">>
W_OR == <<"O", "R">>

\* The translation of the operator token t, "" when t is no operator.
OperatorJs(t) ==
  IF IsPassThroughOperator(t.type) THEN Str(t.text)
  ELSE IF t.type = Indent /\ t.text = W_AND THEN "&&"
  ELSE IF t.type = Indent /\ t.text = W_OR THEN "||"
  ELSE IF t.type = Equal THEN "==="
  ELSE IF t.type = NotEqual THEN "!=="
  ELSE ""

\* IsSignPair with Plus forgotten.
IsSignPairMinus(type) == type = Minus

\* case Plus, Minus: the next token is a sign too.
IsSignPair(type) == type \in {Plus, Minus}

\* The switch on the first token of an operand.
ParseOperand(p) ==
  LET f == Top(p)
      t == Last(p.revToks)
      q == Popped(p)
  IN  IF p.revToks = <<>> THEN Crash(p)
      ELSE IF t.type = Indent THEN
        IF q.revToks = <<>> THEN Crash(q)
        ELSE IF Last(q.revToks).type = LParen
          THEN Call(q, [f EXCEPT !.pc = "call"],
                    Frame("parseFunctionCall", "start", END, t.text))
        ELSE Goto(q, [f EXCEPT !.js = @ \o Str(t.text), !.pc = "end"])
      ELSE IF t.type = Name /\ p.dialect = "bespoke" THEN
        Goto(q, [f EXCEPT !.js = @ \o "**" \o Str(Tail(t.text)) \o "**",
                         !.pc = "end"])
      ELSE IF t.type \in {String, Number} THEN
        Goto(q, [f EXCEPT !.js = @ \o Str(t.text), !.pc = "end"])
      ELSE IF t.type \in {Plus, Minus} THEN
        IF q.revToks = <<>> THEN Crash(q)
        ELSE IF IsSignPair(Last(q.revToks).type)
          THEN Goto(q, [f EXCEPT !.pc = "sign"])
        ELSE Goto(q, [f EXCEPT !.js = @ \o Str(t.text)])
      ELSE IF t.type = Not THEN Goto(q, [f EXCEPT !.js = @ \o "!"])
      ELSE IF t.type = LParen THEN
        CallParseExpression(q, [f EXCEPT !.pc = "paren"], RParen)
      ELSE IF t.type = LBracket /\ p.dialect = "bespoke" THEN
        CallParseList(q, [f EXCEPT !.pc = "bracket"], RBracket)
      ELSE Report(q, t)

\* The end test, and the operator when the expression goes on.
ParseOperator(p) ==
  LET f == Top(p)
      t == Last(p.revToks)
      q == Popped(p)
  IN  IF p.revToks = <<>> THEN Crash(p)
      ELSE IF IsEndOfExpression(t.type, f.end) THEN Return(p, f.js)
      ELSE IF OperatorJs(t) # "" THEN
        Goto(q, [f EXCEPT
                   !.js = @ \o Pad(p.dialect) \o OperatorJs(t) \o Pad(p.dialect),
                   !.pc = "operand"])
      ELSE Report(q, t)

ParseExpressionStep(p) ==
  LET f == Top(p) IN
  CASE f.pc = "operand" -> ParseOperand(p)
    [] f.pc = "sign" ->
         \* two signs: the bespoke variant pops the second one to report it
         IF p.dialect = "bespoke" THEN Report(Popped(p), Last(p.revToks))
         ELSE Report(p, Last(p.revToks))
    [] f.pc = "call" ->
         Goto(p, [f EXCEPT !.js = @ \o p.ret.val, !.pc = "end"])
    [] f.pc = "paren" ->
         Consume(p, RParen,
                 [f EXCEPT !.js = @ \o "(" \o p.ret.val \o ")", !.pc = "end"])
    [] f.pc = "bracket" ->
         Consume(p, RBracket,
                 [f EXCEPT !.js = @ \o "[" \o p.ret.val \o "]", !.pc = "end"])
    [] f.pc = "end" -> ParseOperator(p)

-----------------------------------------------------------------------------
(* parseList *)

\* IsListClose with RParen forgotten.
IsListCloseBracket(type) == type = RBracket

IsListClose(type) == type \in {RParen, RBracket}

ParseListStep(p) ==
  LET f == Top(p)
      g == [f EXCEPT !.js = @ \o p.ret.val]
  IN
  CASE f.pc = "start" ->
         IF p.revToks = <<>> THEN Crash(p)
         ELSE IF IsListClose(Last(p.revToks).type) THEN Return(p, "")
         ELSE CallParseExpression(p, [f EXCEPT !.pc = "elem"], f.end)
    [] f.pc = "elem" ->
         IF p.revToks = <<>> THEN Crash(p)
         ELSE IF IsListClose(Last(p.revToks).type) THEN Return(p, g.js)
         ELSE ConsumeCallExpression(p, Comma,
                [g EXCEPT !.js = @ \o "," \o Pad(p.dialect)], f.end)

-----------------------------------------------------------------------------
(* parseFunctionCall, parseCountForms *)

W_INCLUDES == <<"I", "N", "C", "L", "U", "D", "E", "S">>
W_PERCENT == <<"P", "E", "R", "C", "E", "N", "T">>
W_COUNTFORMS == <<"C", "O", "U", "N", "T", "F", "O", "R", "M", "S">>
W_SUM == <<"S", "U", "M">>
W_toString == <<"t", "o", "S", "t", "r", "i", "n", "g">>
W_constructor == <<"c", "o", "n", "s", "t", "r", "u", "c", "t", "o", "r">>
W_valueOf == <<"v", "a", "l", "u", "e", "O", "f">>

\* The properties every object inherits from Object.prototype, as far as the
\* formulas of this model name them, and what each gives when added to a
\* string.
ObjectPrototype ==
  [n \in {W_toString, W_constructor, W_valueOf} |->
     CASE n = W_toString -> "function toString() { [native code] }"
       [] n = W_constructor -> "function Object() { [native code] }"
       [] n = W_valueOf -> "function valueOf() { [native code] }"]

\* func2jsfunc[name], "" for undefined.  func2jsfunc is an object literal:
\* a name it does not hold is looked up in Object.prototype.
Func2JsFunc(name) ==
  IF name = W_SUM THEN "sumConditionalOccurrences"
  ELSE IF name \in DOMAIN ObjectPrototype THEN ObjectPrototype[name]
  ELSE ""

\* CallHead with the parentheses around the list forgotten.
CallHeadNoParens(name, arg) ==
  IF name = W_INCLUDES THEN arg \o ".includes("
  ELSE "getTrend(" \o arg \o ", "

\* The js of INCLUDES and PERCENT once the first argument is translated.
CallHead(name, arg) ==
  IF name = W_INCLUDES THEN "(" \o arg \o ").includes("
  ELSE "getTrend(" \o arg \o ", "

BespokeFunctionCallStep(p) ==
  LET f == Top(p) IN
  CASE f.pc = "start" ->
         IF f.name \in {W_INCLUDES, W_PERCENT}
           THEN ConsumeCallExpression(p, LParen, [f EXCEPT !.pc = "arg1"], Comma)
         ELSE IF f.name = W_COUNTFORMS
           THEN Call(p, [f EXCEPT !.pc = "tail"],
                     Frame("parseCountForms", "start", END, <<>>))
         ELSE Throw(p, "unsupported function: " \o Str(f.name))
    [] f.pc = "arg1" ->
         ConsumeCallExpression(p, Comma,
           [f EXCEPT !.pc = "arg2", !.js = CallHead(f.name, p.ret.val)], Comma)
    [] f.pc = "arg2" -> ConsumeReturn(p, RParen, f.js \o p.ret.val \o ")")
    [] f.pc = "tail" -> Return(p, p.ret.val)

GenericFunctionCallStep(p) ==
  LET f == Top(p) IN
  CASE f.pc = "start" ->
         IF Func2JsFunc(f.name) = ""
           THEN Throw(p, "Unsupported function: " \o Str(f.name))
         ELSE IF p.revToks = <<>> THEN Crash(p)
         ELSE IF Last(p.revToks).type # LParen
           THEN Report(Popped(p), Last(p.revToks))
         ELSE CallParseList(Popped(p),
                [f EXCEPT !.pc = "list", !.js = Func2JsFunc(f.name)], Comma)
    [] f.pc = "list" ->
         ConsumeReturn(p, RParen, f.js \o "(" \o p.ret.val \o ")")

ParseFunctionCallStep(p) ==
  IF p.dialect = "bespoke" THEN BespokeFunctionCallStep(p)
  ELSE GenericFunctionCallStep(p)

CountOccurrencesJs(formName) ==
  "countOccurrences(" \o Str(formName) \o ", [])"

\* CountConditionalOccurrencesJs with the condition inlined as code.
CountConditionalOccurrencesJsInline(formName, condition) ==
  "countConditionalOccurrences(" \o Str(formName) \o ", [], "
    \o condition \o ")"

CountConditionalOccurrencesJs(formName, condition) ==
  "countConditionalOccurrences(" \o Str(formName) \o ", [], "
    \o Backtick \o condition \o Backtick \o ")"

ParseCountFormsStep(p) ==
  LET f == Top(p)
      t == Last(p.revToks)
      q == Popped(p)
  IN
  CASE f.pc = "start" -> Consume(p, LParen, [f EXCEPT !.pc = "form"])
    [] f.pc = "form" ->
         IF p.revToks = <<>> THEN Crash(p)
         ELSE Consume(p, Indent, [f EXCEPT !.pc = "switch", !.name = t.text])
    [] f.pc = "switch" ->
         IF p.revToks = <<>> THEN Crash(p)
         ELSE IF t.type = RParen
           THEN Return(q, CountOccurrencesJs(f.name))
         ELSE IF t.type = Comma
           THEN CallParseExpression(q, [f EXCEPT !.pc = "cond"], Comma)
         ELSE Report(q, t)
    [] f.pc = "cond" ->
         ConsumeReturn(p, RParen,
                       CountConditionalOccurrencesJs(f.name, p.ret.val))

-----------------------------------------------------------------------------
(* unexpectedTokenError, printTokens *)

\* UnexpectedTokenErrorStep with the token pushed before the test for END.
UnexpectedTokenErrorStepPushFirst(p) ==
  IF p.dialect = "bespoke"
    THEN [p EXCEPT !.revToks = Append(@, p.tok), !.mode = "print", !.msg = ""]
  ELSE IF p.tok.type = END THEN Throw(p, "unexpected end of token stream")
  ELSE Throw(p, "unexpected token: " \o Str(p.tok.text))

UnexpectedTokenErrorStep(p) ==
  IF p.tok.type = END THEN Throw(p, "unexpected end of token stream")
  ELSE IF p.dialect = "bespoke"
    THEN [p EXCEPT !.revToks = Append(@, p.tok), !.mode = "print", !.msg = ""]
  ELSE Throw(p, "unexpected token: " \o Str(p.tok.text))

\* What printTokens adds to s for token t.
Printed(t) ==
  IF t.type >= Plus /\ t.type <= NotEqual THEN " " \o Str(t.text) \o " "
  ELSE IF t.type = Comma THEN ", "
  ELSE Str(t.text)

\* One turn of printTokens's loop; the Error is made when the array is empty.
PrintTokensStep(p) ==
  IF p.revToks = <<>>
    THEN Throw(p, "unexpected token at the start of: " \o p.msg)
  ELSE [Popped(p) EXCEPT !.msg = @ \o Printed(Last(p.revToks))]

-----------------------------------------------------------------------------
(* indicatorToJs *)

\* parseExpression(tokenize(formula).reverse(), TokenType.END) is entered.
StartParse(tokens, d) ==
  [dialect |-> d, revToks |-> Reverse(tokens),
   frames |-> <<Frame("parseExpression", "operand", END, <<>>)>>,
   ret |-> NoRet, tok |-> EndToken, msg |-> "", mode |-> "run"]

Ended(p) == p.mode \in {"returned", "thrown", "crashed"}

\* One step of the parser from state p.
ParserStep(p) ==
  CASE p.mode = "report" -> UnexpectedTokenErrorStep(p)
    [] p.mode = "print" -> PrintTokensStep(p)
    [] p.mode = "run" /\ Top(p).fn = "parseExpression" -> ParseExpressionStep(p)
    [] p.mode = "run" /\ Top(p).fn = "parseList" -> ParseListStep(p)
    [] p.mode = "run" /\ Top(p).fn = "parseFunctionCall" ->
         ParseFunctionCallStep(p)
    [] p.mode = "run" /\ Top(p).fn = "parseCountForms" -> ParseCountFormsStep(p)

\* The parser run to its end from state p.
RECURSIVE Finish(_)
Finish(p) == IF Ended(p) THEN p ELSE Finish(ParserStep(p))

\* indicatorToJs as a function of the tokens of the formula (END included).
Parse(tokens, d) == Finish(StartParse(tokens, d))

-----------------------------------------------------------------------------
(* The formulas translated *)

MaxLen == 3
MaxArgs == 3
MaxChars == 4

SeqsUpTo(S, n) == UNION {[1..k -> S] : k \in 0..n}

\* The lexemes of ls, one space between two of them.
RECURSIVE Join(_, _)
Join(ls, sep) ==
  IF ls = <<>> THEN <<>>
  ELSE IF Len(ls) = 1 THEN ls[1]
  ELSE ls[1] \o sep \o Join(Tail(ls), sep)

W_FOO == <<"F", "O", "O">>
W_x == <<"x">>
W_1 == <<"1">>
W_field == <<"$", "f", "1">>
W_string == <<"\"", "s", "\\", "\"", "\"">>
W_number == <<"2", ".", "5", "e", "-", "3">>

BinaryOperators ==
  {<<"+">>, <<"-">>, <<"*">>, <<"/">>, <<"<">>, <<"<", "=">>, <<">">>,
   <<">", "=">>, <<"=">>, <<"!", "=">>, W_AND, W_OR}

\* Every sequence of at most MaxLen of these lexemes.
ShortVocabulary ==
  {<<"(">>, <<")">>, <<"[">>, <<"]">>, <<",">>, <<"+">>, <<"-">>, <<"=">>,
   <<"!">>, W_1, W_x, W_AND}

ShortFormulas == {Join(ls, <<" ">>) : ls \in SeqsUpTo(ShortVocabulary, MaxLen)}

\* a op b
Operands ==
  {<<W_x>>, <<W_number>>, <<<<"-">>, W_1>>, <<<<"(">>, W_x, <<")">>>>,
   <<W_field>>, <<W_string>>, <<<<"!">>, W_x>>, <<W_x, <<"*">>, W_1>>,
   <<<<"[">>, W_1, <<",">>, W_x, <<"]">>>>}

BinaryFormulas ==
  {Join(a \o <<op>> \o b, <<" ">>) :
     a \in Operands, op \in BinaryOperators, b \in Operands}

\* F(arg, ..., arg) with at most MaxArgs arguments
FunctionNames == {W_INCLUDES, W_PERCENT, W_COUNTFORMS, W_SUM, W_FOO, W_toString}

Arguments ==
  {<<W_x>>, <<W_1>>, <<<<"[">>, W_x, <<"]">>>>, <<W_x, <<"=">>, W_1>>}

CallFormulas ==
  {name \o <<"(">> \o Join([i \in DOMAIN as |-> Join(as[i], <<" ">>)], <<",">>)
        \o <<")">> :
     name \in FunctionNames, as \in SeqsUpTo(Arguments, MaxArgs)}

\* The formulas that stop early: every prefix of these.
Balanced ==
  {<<<<"(">>, W_1, <<"+">>, <<"2">>, <<")">>, <<"*">>, W_x>>,
   <<W_1, W_AND, W_x>>,
   <<W_INCLUDES, <<"(">>, <<"[">>, W_1, <<",">>, W_x, <<"]">>, <<",">>,
     <<"(">>, W_x, <<")">>, <<")">>>>,
   <<W_COUNTFORMS, <<"(">>, W_FOO, <<",">>, W_field, <<"=">>, W_1, <<")">>>>,
   <<W_PERCENT, <<"(">>, W_x, <<",">>, W_1, <<")">>, <<"+">>, <<"-">>, W_1>>,
   <<W_SUM, <<"(">>, W_x, <<",">>, W_SUM, <<"(">>, <<")">>, <<")">>>>}

TruncatedFormulas ==
  UNION {{Join(SubSeq(ls, 1, n), <<" ">>) : n \in 0..Len(ls)} : ls \in Balanced}

\* Every string of at most MaxChars of these characters.
CharAlphabet == {"<", "=", "!", "a", "1", " "}

CharFormulas == SeqsUpTo(CharAlphabet, MaxChars)

Formulas ==
  ShortFormulas \cup BinaryFormulas \cup CallFormulas \cup TruncatedFormulas
    \cup CharFormulas

-----------------------------------------------------------------------------
(* The state machine *)

Init ==
  /\ dialect \in Dialects
  /\ formula \in Formulas
  /\ s = formula
  /\ toks = <<>>
  /\ revToks = <<>>
  /\ frames = <<>>
  /\ ret = NoRet
  /\ tok = EndToken
  /\ msg = ""
  /\ mode = "tokenize"

Become(p) ==
  /\ revToks' = p.revToks
  /\ frames' = p.frames
  /\ ret' = p.ret
  /\ tok' = p.tok
  /\ msg' = p.msg
  /\ mode' = p.mode
  /\ UNCHANGED <<dialect, formula, s, toks>>

\* One turn of tokenize's loop; at END, indicatorToJs reverses the tokens
\* and enters parseExpression.
TokenizeStep ==
  /\ mode = "tokenize"
  /\ LET r == FirstToken(Trim(s), dialect) IN
       IF r.error
       THEN /\ mode' = "thrown"
            /\ msg' = r.msg
            /\ UNCHANGED <<s, toks, revToks, frames, ret, tok>>
       ELSE /\ toks' = Append(toks, r.token)
            /\ IF r.token.type = END
               THEN /\ s' = Trim(s)
                    /\ revToks' = StartParse(toks', dialect).revToks
                    /\ frames' = StartParse(toks', dialect).frames
                    /\ mode' = "run"
               ELSE /\ s' = Drop(Trim(s), Len(r.token.text))
                    /\ UNCHANGED <<revToks, frames, mode>>
            /\ UNCHANGED <<ret, tok, msg>>
  /\ UNCHANGED <<dialect, formula>>

ParseExpression ==
  /\ mode = "run" /\ Top(Cur).fn = "parseExpression"
  /\ Become(ParseExpressionStep(Cur))

ParseList ==
  /\ mode = "run" /\ Top(Cur).fn = "parseList"
  /\ Become(ParseListStep(Cur))

ParseFunctionCall ==
  /\ mode = "run" /\ Top(Cur).fn = "parseFunctionCall"
  /\ Become(ParseFunctionCallStep(Cur))

ParseCountForms ==
  /\ mode = "run" /\ Top(Cur).fn = "parseCountForms"
  /\ Become(ParseCountFormsStep(Cur))

UnexpectedTokenError ==
  /\ mode = "report"
  /\ Become(UnexpectedTokenErrorStep(Cur))

PrintTokens ==
  /\ mode = "print"
  /\ Become(PrintTokensStep(Cur))

Next ==
  \/ TokenizeStep
  \/ ParseExpression
  \/ ParseList
  \/ ParseFunctionCall
  \/ ParseCountForms
  \/ UnexpectedTokenError
  \/ PrintTokens

Spec == Init /\ [][Next]_vars

-----------------------------------------------------------------------------
(* What the claims speak of *)

Scanned == mode # "tokenize" /\ toks # <<>> /\ Last(toks).type = END

Done == mode \in {"returned", "thrown", "crashed"}

Raising == {"report", "print", "thrown"}

\* The tokens of the formula, END left out.
Input == Front(toks)

\* The token sequence x is a formula that translates.
Valid(x) == Parse(Append(x, EndToken), dialect).mode = "returned"

\* The translation of the token sequence x.
Translation(x) == Parse(Append(x, EndToken), dialect).ret.val

Types(x) == [i \in DOMAIN x |-> x[i].type]

Lex(ls) == Join(ls, <<" ">>)

Parsing(fn, pc) ==
  mode = "run" /\ frames # <<>> /\ Last(frames).fn = fn /\ Last(frames).pc = pc

\* The binary operators and their images, as the grammar lists them.
BinaryOperatorTypes ==
  {Plus, Minus, Mul, Div, Less, LessOrEq, Greater, GreaterOrEq, Equal, NotEqual}

IsBinaryOperator(t) ==
  t.type \in BinaryOperatorTypes \/ (t.type = Indent /\ t.text \in {W_AND, W_OR})

Image(t) ==
  CASE t.type = Equal -> "==="
    [] t.type = NotEqual -> "!=="
    [] t.type = Indent /\ t.text = W_AND -> "&&"
    [] t.type = Indent /\ t.text = W_OR -> "||"
    [] OTHER -> Str(t.text)

-----------------------------------------------------------------------------
(* C1 *)

\* C1: the parser never reads a token off an empty array; it returns only
\* with exactly the END token left; a step that pops END is a step of an
\* error being raised, and an error being raised ends in a throw; the
\* formulas "(1 + 2" and "1 AND" do not return.
C1_EveryTokenConsumed ==
  [][/\ mode' # "crashed"
     /\ mode' = "returned" => revToks' = <<EndToken>>
     /\ (/\ mode # "tokenize"
         /\ revToks # <<>>
         /\ revToks' = Front(revToks)
         /\ Last(revToks).type = END) => mode' \in Raising
     /\ mode \in Raising => mode' \in Raising
     /\ mode' = "returned" =>
          formula \notin {Lex(<<<<"(">>, W_1, <<"+">>, <<"2">>>>),
                          Lex(<<W_1, W_AND>>)}]_vars

C1_Witness ==
  /\ mode = "thrown"
  /\ formula = Lex(<<<<"(">>, W_1, <<"+">>, <<"2">>>>)
  /\ msg = "unexpected end of token stream"
  /\ revToks = <<>>

-----------------------------------------------------------------------------
(* C7 *)

EndsExpression(type, end) ==
  \/ type = end
  \/ end = Comma /\ type = RParen
  \/ end = RBracket /\ type = Comma

\* C7: when parseExpression returns, the step pops nothing and the token
\* left on top is the terminator: of type E, or RParen for E = Comma, or
\* Comma for E = RBracket; for E in {END, RParen}, a token after an operand
\* that is neither of type E nor a binary operator raises an error.
C7_TerminatorNotConsumed ==
  [][/\ ret'.from = "parseExpression" =>
          /\ revToks' = revToks
          /\ revToks' # <<>>
          /\ EndsExpression(Last(revToks').type, ret'.end)
     /\ (/\ Parsing("parseExpression", "end")
         /\ Last(frames).end \in {END, RParen}
         /\ revToks # <<>>
         /\ Last(revToks).type # Last(frames).end
         /\ ~IsBinaryOperator(Last(revToks))) =>
          mode' = "report" /\ tok' = Last(revToks)]_vars

C7_Witness ==
  /\ ret.from = "parseExpression"
  /\ ret.end = RBracket
  /\ Last(revToks).type = Comma

-----------------------------------------------------------------------------
(* C9 *)

IsSign(t) == t.type \in {Plus, Minus}

\* The parser is about to read an operand and finds a sign followed by a sign.
UnarySignPair ==
  /\ Parsing("parseExpression", "operand")
  /\ Len(revToks) >= 2
  /\ IsSign(revToks[Len(revToks)])
  /\ IsSign(revToks[Len(revToks) - 1])

\* C9 as stated: a formula holding a sign token followed by a sign token
\* never translates.
C9_Original ==
  mode = "returned" =>
    ~\E i \in 1..(Len(Input) - 1) : IsSign(Input[i]) /\ IsSign(Input[i + 1])

\* C9 as amended: a sign token read where an operand is expected and followed
\* by another sign token raises an error (the second sign is the token
\* reported); so does every formula that begins with two signs.
C9_UnarySignPairRaises ==
  [][/\ UnarySignPair =>
          /\ mode' = "run"
          /\ Last(frames').pc = "sign"
          /\ revToks' = Front(revToks)
     /\ Parsing("parseExpression", "sign") =>
          mode' = "report" /\ IsSign(tok')
     /\ mode \in Raising => mode' \in Raising
     /\ (/\ mode' = "returned"
         /\ Len(Input) >= 2) => ~(IsSign(Input[1]) /\ IsSign(Input[2]))]_vars

C9_Witness ==
  /\ mode = "thrown"
  /\ Len(toks) = 4
  /\ Types(toks) = <<Minus, Plus, Number, END>>

-----------------------------------------------------------------------------
(* C10 *)

\* C10 as stated: once the parser has the reversed tokens, a step leaves
\* them as they are or removes the last one.
C10_Original ==
  [][mode # "tokenize" =>
       revToks' = revToks \/ (revToks # <<>> /\ revToks' = Front(revToks))]_vars

\* C10 as amended: a step leaves the reversed tokens as they are, removes
\* the last one, or, in the bespoke variant's unexpectedTokenError and for a
\* token other than END, puts back the token last removed; the array is at
\* all times a leading part of the reversed tokens of the formula.
C10_OnlyTailChanges ==
  [][mode # "tokenize" =>
       \/ revToks' = revToks
       \/ revToks # <<>> /\ revToks' = Front(revToks)
       \/ /\ mode = "report"
          /\ dialect = "bespoke"
          /\ tok.type # END
          /\ Len(revToks) < Len(toks)
          /\ revToks' = Append(revToks, Reverse(toks)[Len(revToks) + 1])]_vars

C10_Witness ==
  /\ mode = "print"
  /\ msg = ""
  /\ dialect = "bespoke"
  /\ Len(revToks) > 2
  /\ revToks = SubSeq(Reverse(toks), 1, Len(revToks))

-----------------------------------------------------------------------------
(* C2 *)

\* The functions of each variant.
AllowList(d) ==
  IF d = "bespoke" THEN {W_INCLUDES, W_PERCENT, W_COUNTFORMS} ELSE {W_SUM}

\* C2: parseFunctionCall, entered for a name that is not of the allow-list,
\* throws the unsupported-function error that names it.
C2_UnknownFunctionRaises ==
  [][(/\ Parsing("parseFunctionCall", "start")
      /\ Last(frames).name \notin AllowList(dialect)) =>
        /\ mode' = "thrown"
        /\ msg' \in {"unsupported function: " \o Str(Last(frames).name),
                     "Unsupported function: " \o Str(Last(frames).name)}]_vars

-----------------------------------------------------------------------------
(* C3 *)

IsEmptyCall == Len(Input) = 3 /\ Types(Input) = <<Indent, LParen, RParen>>

IsEmptyArray == Types(Input) = <<LBracket, RBracket>>

\* C3 as stated: F() for F of the allow-list, and [], translate, the latter
\* to "[]".
C3_Original ==
  (Scanned /\ Done) =>
    /\ (IsEmptyCall /\ Input[1].text \in AllowList(dialect)) => mode = "returned"
    /\ IsEmptyArray => mode = "returned" /\ ret.val = "[]"

\* C3 as amended: in the generic variant SUM() translates to
\* sumConditionalOccurrences() and [] raises an error; in the bespoke
\* variant [] translates to [] and INCLUDES(), PERCENT() and COUNTFORMS()
\* raise an error.
C3_EmptyListByVariant ==
  (Scanned /\ Done) =>
    /\ (IsEmptyCall /\ Input[1].text \in AllowList(dialect)) =>
         IF dialect = "generic"
         THEN mode = "returned" /\ ret.val = "sumConditionalOccurrences()"
         ELSE mode = "thrown"
    /\ IsEmptyArray =>
         IF dialect = "bespoke"
         THEN mode = "returned" /\ ret.val = "[]"
         ELSE mode = "thrown"

C3_Witness ==
  /\ mode = "returned"
  /\ dialect = "generic"
  /\ IsEmptyCall
  /\ Input[1].text = W_SUM
  /\ ret.val = "sumConditionalOccurrences()"

-----------------------------------------------------------------------------
(* C4 *)

\* The formula is a op b, op being its i-th token, with a and b formulas
\* that translate.
SplitsAt(i) ==
  /\ IsBinaryOperator(Input[i])
  /\ Valid(SubSeq(Input, 1, i - 1))
  /\ Valid(SubSeq(Input, i + 1, Len(Input)))

\* C4: the translation of a op b is the translation of a, the image of op
\* (between spaces in the bespoke variant), and the translation of b.
C4_OperatorsOneForOne ==
  (Scanned /\ Done) =>
    \A i \in 1..Len(Input) :
      SplitsAt(i) =>
        /\ mode = "returned"
        /\ ret.val = Translation(SubSeq(Input, 1, i - 1))
                       \o Pad(dialect) \o Image(Input[i]) \o Pad(dialect)
                       \o Translation(SubSeq(Input, i + 1, Len(Input)))

C4_Witness ==
  /\ Scanned
  /\ mode = "returned"
  /\ Len(Input) = 9
  /\ SplitsAt(4)
  /\ Input[4].type = GreaterOrEq
  /\ Input[2].type = Mul

-----------------------------------------------------------------------------
(* C5 *)

IsCall(name) ==
  /\ Len(Input) >= 2
  /\ Input[1] = Token(Indent, name)
  /\ Input[2].type = LParen

\* The tokens from the i-th to the one before the j-th are an expression.
Argument(i, j) == Valid(SubSeq(Input, i, j - 1))

\* C5: in the bespoke variant, COUNTFORMS(Form) translates to
\* countOccurrences(Form, []) and COUNTFORMS(Form, cond) to
\* countConditionalOccurrences(Form, [], `cond translated`); a first
\* argument that is not a bare identifier, and a third argument, raise an
\* error.
C5_CountFormsShapes ==
  (Scanned /\ Done /\ dialect = "bespoke" /\ IsCall(W_COUNTFORMS)) =>
    LET n == Len(Input)
        bare == n >= 4 /\ Input[3].type = Indent
                       /\ Input[4].type \in {RParen, Comma}
    IN  /\ (bare /\ n = 4 /\ Input[4].type = RParen) =>
             /\ mode = "returned"
             /\ ret.val = "countOccurrences(" \o Str(Input[3].text) \o ", [])"
        /\ (bare /\ Input[4].type = Comma /\ Input[n].type = RParen
              /\ Argument(5, n)) =>
             /\ mode = "returned"
             /\ ret.val = "countConditionalOccurrences(" \o Str(Input[3].text)
                            \o ", [], " \o Backtick
                            \o Translation(SubSeq(Input, 5, n - 1))
                            \o Backtick \o ")"
        /\ ~bare => mode = "thrown"
        /\ (bare /\ \E j \in 6..n : Input[j].type = Comma /\ Argument(5, j)) =>
             mode = "thrown"

C5_Witness ==
  /\ Scanned
  /\ mode = "returned"
  /\ dialect = "bespoke"
  /\ IsCall(W_COUNTFORMS)
  /\ Len(Input) = 8
  /\ Input[4].type = Comma
  /\ Argument(5, 8)

-----------------------------------------------------------------------------
(* C6 *)

\* C6: in the bespoke variant, INCLUDES(list, item) translates to
\* (list translated).includes(item translated); INCLUDES with no argument,
\* with one, and with three or more raises an error.
C6_IncludesTwoArguments ==
  (Scanned /\ Done /\ dialect = "bespoke" /\ IsCall(W_INCLUDES)) =>
    LET n == Len(Input) IN
      /\ \A j \in 4..(n - 2) :
           (/\ Input[j].type = Comma
            /\ Input[n].type = RParen
            /\ Argument(3, j)
            /\ Argument(j + 1, n)) =>
             /\ mode = "returned"
             /\ ret.val = "(" \o Translation(SubSeq(Input, 3, j - 1))
                            \o ").includes("
                            \o Translation(SubSeq(Input, j + 1, n - 1)) \o ")"
      /\ (n = 3 /\ Input[3].type = RParen) => mode = "thrown"
      /\ (n >= 4 /\ Input[n].type = RParen /\ Argument(3, n)) => mode = "thrown"
      /\ \A j \in 4..n : \A k \in (j + 2)..n :
           (/\ Input[j].type = Comma
            /\ Input[k].type = Comma
            /\ Argument(3, j)
            /\ Argument(j + 1, k)) => mode = "thrown"

C6_Witness ==
  /\ Scanned
  /\ mode = "returned"
  /\ dialect = "bespoke"
  /\ IsCall(W_INCLUDES)
  /\ Types(Input) = <<Indent, LParen, LBracket, Indent, RBracket, Comma,
                      Indent, Equal, Number, RParen>>
  /\ ret.val = "([x]).includes(x === 1)"

-----------------------------------------------------------------------------
(* C8 *)

\* tokenize is about to scan an operator character c followed by "=".
ScansBeforeEqual(c) ==
  /\ mode = "tokenize"
  /\ Len(Trim(s)) >= 2
  /\ Trim(s)[1] = c
  /\ Trim(s)[2] = "="

A_eq_a == <<"a", "=", "=", "a">>

\* C8 as stated: each of "<", ">", "=", "!" followed by "=" is scanned with
\* it as one token of two characters, and a==a has three tokens before END.
C8_Original ==
  [][/\ \A c \in {"<", ">", "=", "!"} :
          ScansBeforeEqual(c) =>
            toks' = Append(toks, Last(toks')) /\ Last(toks').text = <<c, "=">>
     /\ (formula = A_eq_a /\ mode' = "run") => Len(toks') = 4]_vars

\* C8 as amended: each of "<", ">", "!" followed by "=" is scanned with it
\* as the one token <=, >=, != ; "=" followed by "=" is scanned alone, as an
\* Equal token, so that a==a has four tokens before END and raises an error.
C8_ExtendedByEqual ==
  [][/\ \A c \in {"<", ">", "!"} :
          ScansBeforeEqual(c) =>
            /\ toks' = Append(toks, Last(toks'))
            /\ Last(toks').text = <<c, "=">>
            /\ Last(toks').type =
                 (CASE c = "<" -> LessOrEq [] c = ">" -> GreaterOrEq
                    [] c = "!" -> NotEqual)
     /\ ScansBeforeEqual("=") =>
          /\ toks' = Append(toks, Token(Equal, <<"=">>))
          /\ s' = Tail(Trim(s))
     /\ (formula = A_eq_a /\ mode' \in {"run", "returned"}) =>
          Len(toks') = 5 /\ mode' = "run"]_vars

C8_Witness ==
  /\ formula = A_eq_a
  /\ mode = "thrown"
  /\ Types(toks) = <<Indent, Equal, Equal, Indent, END>>

====
